---- MODULE Spec2Model ----
(***************************************************************************)
(* A model of the App Store regional-pricing pipeline:                     *)
(*   src/src/lib/util.ts    normalizePrice, parseNumberWithSeparators      *)
(*   src/src/lib/utils.ts   groupProducts (both definitions),              *)
(*                          filterHighestPriceProducts, sortGroupedProducts*)
(* Text is a sequence of one-character strings.  A JavaScript number is a  *)
(* record [k, m, e]: k = "num" stands for the decimal m / 10^e (kept       *)
(* normalised, so equal numbers are equal records), k = "nan", "inf" and   *)
(* "-inf" stand for NaN, Infinity and -Infinity.                           *)
(***************************************************************************)
EXTENDS Integers, Sequences, FiniteSets, TLC

\* ------------------------------------------------------------------ bounds

\* Longest price text the price specification enumerates.
MaxLen == 5

\* Longest record list handed to groupProducts / filterHighestPriceProducts.
MaxRecords == 3

\* Longest entry list handed to sortGroupedProducts.
MaxEntries == 3

\* ------------------------------------------------------------------ text

Digits == {"0", "1", "2", "3", "4", "5", "6", "7", "8", "9"}

DigitValue(c) ==
  CASE c = "0" -> 0 [] c = "1" -> 1 [] c = "2" -> 2 [] c = "3" -> 3
    [] c = "4" -> 4 [] c = "5" -> 5 [] c = "6" -> 6 [] c = "7" -> 7
    [] c = "8" -> 8 [] c = "9" -> 9

DigitChar(d) == <<"0", "1", "2", "3", "4", "5", "6", "7", "8", "9">>[d + 1]

UpperCase == <<"A", "B", "C", "D", "E", "F", "G", "H", "I", "J", "K", "L", "M",
               "N", "O", "P", "Q", "R", "S", "T", "U", "V", "W", "X", "Y", "Z">>

LowerCase == <<"a", "b", "c", "d", "e", "f", "g", "h", "i", "j", "k", "l", "m",
               "n", "o", "p", "q", "r", "s", "t", "u", "v", "w", "x", "y", "z">>

\* String.prototype.toLowerCase, one character.
LowerChar(c) ==
  IF \E i \in 1..26 : UpperCase[i] = c
  THEN LowerCase[CHOOSE i \in 1..26 : UpperCase[i] = c]
  ELSE c

\* String.prototype.toLowerCase.
toLowerCase(s) == [i \in 1..Len(s) |-> LowerChar(s[i])]

\* UTF-16 code unit order of the characters the model compares with < and >.
CharCode(c) ==
  CASE c = " " -> 32
    [] c = "$" -> 36
    [] c = "," -> 44
    [] c = "-" -> 45
    [] c = "." -> 46
    [] c \in Digits -> 48 + DigitValue(c)
    [] \E i \in 1..26 : UpperCase[i] = c -> 64 + (CHOOSE i \in 1..26 : UpperCase[i] = c)
    [] \E i \in 1..26 : LowerCase[i] = c -> 96 + (CHOOSE i \in 1..26 : LowerCase[i] = c)
    [] OTHER -> 8364

\* s < t on JavaScript strings: lexicographic on code units.
RECURSIVE StringLess(_, _)
StringLess(s, t) ==
  IF t = <<>> THEN FALSE
  ELSE IF s = <<>> THEN TRUE
  ELSE IF CharCode(Head(s)) # CharCode(Head(t)) THEN CharCode(Head(s)) < CharCode(Head(t))
  ELSE StringLess(Tail(s), Tail(t))

\* s.indexOf(t), 0-based, -1 when t does not occur.
IndexOf(s, t) ==
  IF \E i \in 1..(Len(s) - Len(t) + 1) : SubSeq(s, i, i + Len(t) - 1) = t
  THEN (CHOOSE i \in 1..(Len(s) - Len(t) + 1) :
          /\ SubSeq(s, i, i + Len(t) - 1) = t
          /\ \A j \in 1..(i - 1) : SubSeq(s, j, j + Len(t) - 1) # t) - 1
  ELSE -1

\* s.includes(t)
Includes(s, t) == IndexOf(s, t) # -1

\* s.lastIndexOf(c) for a single character c, 0-based, -1 when c does not occur.
LastIndexOf(s, c) ==
  IF \E i \in 1..Len(s) : s[i] = c
  THEN (CHOOSE i \in 1..Len(s) : s[i] = c /\ \A j \in (i + 1)..Len(s) : s[j] # c) - 1
  ELSE -1

\* s.split(t)[0]: the text before the first occurrence of t (all of s without one).
SplitFirst(s, t) == IF Includes(s, t) THEN SubSeq(s, 1, IndexOf(s, t)) ELSE s

\* s.split(c) for a single character c: the fragments between the occurrences.
RECURSIVE Split(_, _)
Split(s, c) ==
  IF ~Includes(s, <<c>>) THEN <<s>>
  ELSE <<SubSeq(s, 1, IndexOf(s, <<c>>))>> \o Split(SubSeq(s, IndexOf(s, <<c>>) + 2, Len(s)), c)

\* s.replace(/c/g, ''): every occurrence of the character removed.
RemoveAll(s, c) == SelectSeq(s, LAMBDA x : x # c)

\* s.replace(c, d): the first occurrence of the character c replaced by d.
ReplaceFirst(s, c, d) ==
  IF Includes(s, <<c>>)
  THEN [i \in 1..Len(s) |-> IF i = IndexOf(s, <<c>>) + 1 THEN d ELSE s[i]]
  ELSE s

\* ---------------------------------------------------------------- numbers

RECURSIVE Pow10(_)
Pow10(n) == IF n = 0 THEN 1 ELSE 10 * Pow10(n - 1)

RECURSIVE Normalised(_, _)
Normalised(m, e) ==
  IF e > 0 /\ m % 10 = 0 THEN Normalised(m \div 10, e - 1) ELSE [k |-> "num", m |-> m, e |-> e]

\* The decimal m / 10^e.
Num(m, e) == Normalised(m, e)

NaN == [k |-> "nan", m |-> 0, e |-> 0]
Infinity == [k |-> "inf", m |-> 0, e |-> 0]
NegInfinity == [k |-> "-inf", m |-> 0, e |-> 0]

isNaN(x) == x.k = "nan"

\* a < b on JavaScript numbers (false whenever one side is NaN).
NumLess(a, b) ==
  CASE isNaN(a) \/ isNaN(b) -> FALSE
    [] a.k = "inf" -> FALSE
    [] b.k = "-inf" -> FALSE
    [] a.k = "-inf" -> TRUE
    [] b.k = "inf" -> TRUE
    [] OTHER -> a.m * Pow10(b.e) < b.m * Pow10(a.e)

\* a * b on JavaScript numbers, for finite non-negative b.
NumTimes(a, b) ==
  CASE isNaN(a) \/ isNaN(b) -> NaN
    [] a.k = "num" /\ b.k = "num" -> Num(a.m * b.m, a.e + b.e)
    [] b.m = 0 -> NaN
    [] OTHER -> a

RECURSIVE DigitsValue(_)
DigitsValue(ds) ==
  IF ds = <<>> THEN 0 ELSE 10 * DigitsValue(SubSeq(ds, 1, Len(ds) - 1)) + DigitValue(ds[Len(ds)])

\* The longest prefix of s made of digits.
RECURSIVE DigitPrefix(_)
DigitPrefix(s) ==
  IF s # <<>> /\ Head(s) \in Digits THEN <<Head(s)>> \o DigitPrefix(Tail(s)) ELSE <<>>

\* parseFloat on text made of digits, '.' and ',': the longest prefix of the form
\* digits [ '.' digits ] or '.' digits is read, the rest is ignored; NaN without one.
parseFloat(s) ==
  LET ip == DigitPrefix(s)
      rest == SubSeq(s, Len(ip) + 1, Len(s))
      fp == IF rest # <<>> /\ Head(rest) = "." THEN DigitPrefix(Tail(rest)) ELSE <<>>
  IN IF ip = <<>> /\ fp = <<>> THEN NaN
     ELSE Num(DigitsValue(ip \o fp), Len(fp))

\* ------------------------------------------------------------ util.ts

\* price.replace(/[^\d.,]/g, '')
CleanString(price) == SelectSeq(price, LAMBDA c : c \in Digits \/ c = "." \/ c = ",")

\* A slip of Case 2: the dot is taken for the decimal separator wherever it stands.
BothSeparatorsDotDecimal(cleanString, lastDot, lastComma) ==
  parseFloat(RemoveAll(cleanString, ","))

\* Case 2 of parseNumberWithSeparators: both separators are present.
BothSeparators(cleanString, lastDot, lastComma) ==
  IF lastDot > lastComma THEN parseFloat(RemoveAll(cleanString, ","))
  ELSE parseFloat(ReplaceFirst(RemoveAll(cleanString, "."), ",", "."))

\* A slip of the repeated-separator branch: the text is parsed as it stands.
RepeatedSeparatorKept(cleanString, separator) == parseFloat(cleanString)

\* Case 1, parts.length > 2: the one separator type occurs more than once.
RepeatedSeparator(cleanString, separator) == parseFloat(RemoveAll(cleanString, separator))

\* A slip of the single-separator branch: the three-digit heuristic left out.
SingleSeparatorAlwaysDecimal(cleanString, separator, parts) ==
  IF separator = "," THEN parseFloat(parts[1] \o <<".">> \o parts[2])
  ELSE parseFloat(cleanString)

\* Case 1, parts.length === 2: the separator occurs once.
SingleSeparator(cleanString, separator, parts) ==
  IF Len(parts[2]) = 3 /\ Len(parts[1]) > 0 THEN parseFloat(parts[1] \o parts[2])
  ELSE IF separator = "," THEN parseFloat(parts[1] \o <<".">> \o parts[2])
  ELSE parseFloat(cleanString)

parseNumberWithSeparators(price) ==
  LET cleanString == CleanString(price)
      lastDot == LastIndexOf(cleanString, ".")
      lastComma == LastIndexOf(cleanString, ",")
      separator == IF lastDot > -1 THEN "." ELSE ","
      parts == Split(cleanString, separator)
  IN IF cleanString = <<>> THEN NaN
     ELSE IF lastDot = -1 \/ lastComma = -1 THEN
       IF Len(parts) > 2 THEN RepeatedSeparator(cleanString, separator)
       ELSE IF Len(parts) = 2 THEN SingleSeparator(cleanString, separator, parts)
       ELSE parseFloat(cleanString)
     ELSE BothSeparators(cleanString, lastDot, lastComma)

Juta == <<"j", "u", "t", "a">>
Ribu == <<"r", "i", "b", "u">>

\* The result null of handleIndonesian.
Null == [k |-> "null", m |-> 0, e |-> 0]

handleIndonesian(priceLower, keyword) ==
  IF Includes(priceLower, keyword) THEN
    LET numericPart == SplitFirst(priceLower, keyword)
        numberString == SelectSeq(ReplaceFirst(RemoveAll(numericPart, "."), ",", "."),
                                  LAMBDA c : c \in Digits \/ c = ".")
        baseNumber == parseFloat(numberString)
    IN IF ~isNaN(baseNumber)
       THEN NumTimes(baseNumber, IF keyword = Juta THEN Num(1000000, 0) ELSE Num(1000, 0))
       ELSE Null
  ELSE Null

\* A slip of normalizePrice: 'ribu' tried before 'juta'.
normalizePriceRibuFirst(price) ==
  LET priceLower == toLowerCase(price)
      jutaResult == handleIndonesian(priceLower, Juta)
      ribuResult == handleIndonesian(priceLower, Ribu)
  IN IF ribuResult # Null THEN ribuResult
     ELSE IF jutaResult # Null THEN jutaResult
     ELSE parseNumberWithSeparators(price)

normalizePrice(price) ==
  LET priceLower == toLowerCase(price)
      jutaResult == handleIndonesian(priceLower, Juta)
      ribuResult == handleIndonesian(priceLower, Ribu)
  IN IF jutaResult # Null THEN jutaResult
     ELSE IF ribuResult # Null THEN ribuResult
     ELSE parseNumberWithSeparators(price)

\* ------------------------------------------------------------ utils.ts

USD == <<"U", "S", "D">>
CAD == <<"C", "A", "D">>
EUR == <<"E", "U", "R">>
JPY == <<"J", "P", "Y">>

\* A falsy string value: undefined, null or ''.
Undefined == <<>>

Truthy(s) == s # Undefined

\* Number::toString for a finite decimal in the range written without an exponent.
RECURSIVE NatToString(_)
NatToString(n) == IF n < 10 THEN <<DigitChar(n)>> ELSE NatToString(n \div 10) \o <<DigitChar(n % 10)>>

RECURSIVE FractionDigits(_, _)
FractionDigits(f, width) ==
  IF width = 0 THEN <<>> ELSE FractionDigits(f \div 10, width - 1) \o <<DigitChar(f % 10)>>

NumToString(x) ==
  IF x.e = 0 THEN NatToString(x.m)
  ELSE NatToString(x.m \div Pow10(x.e)) \o <<".">> \o FractionDigits(x.m % Pow10(x.e), x.e)

\* The default currency of each storefront (constants.ts, not among the sources).
apple_store_currency_map(countryCode) ==
  CASE countryCode = <<"u", "s">> -> USD
    [] countryCode = <<"c", "a">> -> CAD
    [] countryCode = <<"d", "e">> -> EUR
    [] countryCode = <<"j", "p">> -> JPY
    [] OTHER -> Undefined

\* The symbols that name one currency, most specific first; a bare '$' is not one.
CurrencySymbols ==
  << [symbol |-> <<"U", "S", "$">>, currency |-> USD],
     [symbol |-> <<"€">>, currency |-> EUR] >>

\* getCurrencyFromSymbol (imported from util, not among the sources): the currency
\* of the first unambiguous symbol the cost text holds, undefined without one.
getCurrencyFromSymbol(cost) ==
  IF \E i \in 1..Len(CurrencySymbols) : Includes(cost, CurrencySymbols[i].symbol)
  THEN CurrencySymbols[CHOOSE i \in 1..Len(CurrencySymbols) :
         /\ Includes(cost, CurrencySymbols[i].symbol)
         /\ \A j \in 1..(i - 1) : ~Includes(cost, CurrencySymbols[j].symbol)].currency
  ELSE Undefined

\* utils.ts:217-230, the effective currency of the second groupProducts.
HierarchyCurrency(item) ==
  LET currencyFromSymbol == getCurrencyFromSymbol(item.cost)
  IN IF Truthy(currencyFromSymbol) THEN currencyFromSymbol
     ELSE IF Includes(item.cost, <<"$">>) /\ Truthy(item.pricingCurrency) THEN item.pricingCurrency
     ELSE item.currency

\* utils.ts:50, the effective currency of the first groupProducts.
CountryMapCurrency(item) == apple_store_currency_map(item.countryCode)

\* The effective currency under the definition of groupProducts in force.
EffectiveCurrency(which, item) ==
  IF which = "first" THEN CountryMapCurrency(item) ELSE HierarchyCurrency(item)

\* A slip of the key: the currency left out of it.
GroupKeyWithoutCurrency(product, effectiveCurrency, normalizedCost) ==
  product \o <<"-">> \o NumToString(normalizedCost)

\* `${item.product}-${effectiveCurrency}-${normalizedCost}`
GroupKey(product, effectiveCurrency, normalizedCost) ==
  product \o <<"-">> \o effectiveCurrency \o <<"-">> \o NumToString(normalizedCost)

\* A slip of the guard: no record is left out.
SkipsNoRecord(normalizedCost) == FALSE

\* if (isNaN(normalizedCost)) return acc: is the record left out of the grouping?
SkipsRecord(normalizedCost) == isNaN(normalizedCost)

\* The reducer of groupProducts. acc is the object under construction, as the
\* sequence of its [key, group] properties in insertion order.
GroupReducer(which, acc, item) ==
  LET normalizedCost == normalizePrice(item.cost)
      effectiveCurrency == EffectiveCurrency(which, item)
      key == GroupKey(item.product, effectiveCurrency, normalizedCost)
      created == IF \E i \in 1..Len(acc) : acc[i].key = key THEN acc
                 ELSE Append(acc, [key |-> key,
                                   group |-> [product |-> item.product,
                                              currency |-> effectiveCurrency,
                                              cost |-> normalizedCost,
                                              countries |-> {}]])
  IN IF SkipsRecord(normalizedCost) THEN acc
     ELSE [i \in 1..Len(created) |->
             IF created[i].key = key
             THEN [created[i] EXCEPT !.group.countries = @ \cup {item.countryName}]
             ELSE created[i]]

RECURSIVE Reduce(_, _, _)
Reduce(which, acc, items) ==
  IF items = <<>> THEN acc ELSE Reduce(which, GroupReducer(which, acc, Head(items)), Tail(items))

\* Object.values(groupedByProductAndPrice)
GroupValues(acc) == [i \in 1..Len(acc) |-> acc[i].group]

\* finalGroupedData: the groups bucketed by product, each bucket in insertion order.
Bucketed(groups) ==
  [p \in {groups[i].product : i \in 1..Len(groups)} |-> SelectSeq(groups, LAMBDA g : g.product = p)]

\* groupProducts as each of the two definitions of utils.ts computes it:
\* "first" is utils.ts:43-74, "second" is utils.ts:210-254.
groupProductsAs(which, allProducts) == Bucketed(GroupValues(Reduce(which, <<>>, allProducts)))

\* `${product.countryCode}-${product.product}`
HighestKey(product) == product.countryCode \o <<"-">> \o product.product

\* A slip of the comparison: the lower price replaces the kept one.
ReplacesWhenLower(currentCost, existingCost) == isNaN(existingCost) \/ NumLess(currentCost, existingCost)

\* Does the current record replace the one kept for its key?
Replaces(currentCost, existingCost) == isNaN(existingCost) \/ NumLess(existingCost, currentCost)

\* A slip of the loop: the record with an unparseable cost is not skipped.
HighestStepWithoutSkip(map, product) ==
  LET key == HighestKey(product)
      currentCost == normalizePrice(product.cost)
      has == \E i \in 1..Len(map) : map[i].key = key
      existing == map[CHOOSE i \in 1..Len(map) : map[i].key = key].value
  IN IF ~has THEN Append(map, [key |-> key, value |-> product])
     ELSE IF Replaces(currentCost, normalizePrice(existing.cost))
          THEN [i \in 1..Len(map) |-> IF map[i].key = key THEN [map[i] EXCEPT !.value = product] ELSE map[i]]
          ELSE map

\* One iteration of the loop of filterHighestPriceProducts. map is the Map as the
\* sequence of its [key, value] entries in insertion order.
HighestStep(map, product) ==
  LET key == HighestKey(product)
      currentCost == normalizePrice(product.cost)
      has == \E i \in 1..Len(map) : map[i].key = key
      existing == map[CHOOSE i \in 1..Len(map) : map[i].key = key].value
  IN IF isNaN(currentCost) THEN map
     ELSE IF ~has THEN Append(map, [key |-> key, value |-> product])
     ELSE IF Replaces(currentCost, normalizePrice(existing.cost))
          THEN [i \in 1..Len(map) |-> IF map[i].key = key THEN [map[i] EXCEPT !.value = product] ELSE map[i]]
          ELSE map

RECURSIVE HighestLoop(_, _)
HighestLoop(map, products) ==
  IF products = <<>> THEN map ELSE HighestLoop(HighestStep(map, Head(products)), Tail(products))

filterHighestPriceProducts(allProducts) ==
  LET highestPriceProducts == HighestLoop(<<>>, allProducts)
  IN [i \in 1..Len(highestPriceProducts) |-> highestPriceProducts[i].value]

\* The five keys the comparator knows; any other key takes its default branch.
KnownKeys == {"product", "currency", "cost", "countries", "convertedCost"}

\* exchangeRates[currency]?.[conversionCurrency]; a table is a function from some
\* base currencies to functions from some target currencies to rates.
NoRate == [k |-> "undefined", m |-> 0, e |-> 0]

RateOf(exchangeRates, currency, conversionCurrency) ==
  IF currency \in DOMAIN exchangeRates /\ conversionCurrency \in DOMAIN exchangeRates[currency]
  THEN exchangeRates[currency][conversionCurrency]
  ELSE NoRate

\* if (rate): undefined, 0 and NaN are falsy.
RateIsUsed(rate) == rate.k \in {"inf", "-inf"} \/ (rate.k = "num" /\ rate.m # 0)

\* The value that sorts last under the direction.
EndOfList(sortConfig) == IF sortConfig.direction = "ascending" THEN Infinity ELSE NegInfinity

getConvertedValue(item, sortConfig, conversionCurrency, exchangeRates) ==
  LET rate == RateOf(exchangeRates, item.currency, conversionCurrency)
  IN IF ~Truthy(conversionCurrency) THEN EndOfList(sortConfig)
     ELSE IF item.currency = conversionCurrency THEN item.cost
     ELSE IF RateIsUsed(rate) THEN NumTimes(item.cost, rate)
     ELSE EndOfList(sortConfig)

\* aValue / bValue of the comparator for a known key.
SortValue(item, sortConfig, conversionCurrency, exchangeRates) ==
  CASE sortConfig.key = "convertedCost" ->
         getConvertedValue(item, sortConfig, conversionCurrency, exchangeRates)
    [] sortConfig.key = "countries" -> Num(Cardinality(item.countries), 0)
    [] sortConfig.key = "product" -> toLowerCase(item.product)
    [] sortConfig.key = "currency" -> toLowerCase(item.currency)
    [] sortConfig.key = "cost" -> item.cost

\* x < y on two values of the same key.
ValueLess(sortConfig, x, y) ==
  IF sortConfig.key \in {"product", "currency"} THEN StringLess(x, y) ELSE NumLess(x, y)

\* A slip of the switch: the default branch falls through to the comparison, where
\* the undefined aValue answers for every pair.
CompareWithoutDefault(a, b, sortConfig, conversionCurrency, exchangeRates) ==
  IF sortConfig.key \notin KnownKeys
  THEN (IF sortConfig.direction = "ascending" THEN -1 ELSE 1)
  ELSE LET aValue == SortValue(a, sortConfig, conversionCurrency, exchangeRates)
           bValue == SortValue(b, sortConfig, conversionCurrency, exchangeRates)
       IN IF ValueLess(sortConfig, aValue, bValue)
          THEN (IF sortConfig.direction = "ascending" THEN -1 ELSE 1)
          ELSE IF ValueLess(sortConfig, bValue, aValue)
          THEN (IF sortConfig.direction = "ascending" THEN 1 ELSE -1)
          ELSE 0

\* The comparator handed to Array.prototype.sort.
Compare(a, b, sortConfig, conversionCurrency, exchangeRates) ==
  IF sortConfig.key \notin KnownKeys THEN 0
  ELSE LET aValue == SortValue(a, sortConfig, conversionCurrency, exchangeRates)
           bValue == SortValue(b, sortConfig, conversionCurrency, exchangeRates)
       IN IF ValueLess(sortConfig, aValue, bValue)
          THEN (IF sortConfig.direction = "ascending" THEN -1 ELSE 1)
          ELSE IF ValueLess(sortConfig, bValue, aValue)
          THEN (IF sortConfig.direction = "ascending" THEN 1 ELSE -1)
          ELSE 0

\* Array.prototype.sort is stable: x goes before the first element of the sorted
\* prefix that the comparator puts strictly after it.
RECURSIVE InsertSorted(_, _, _, _, _)
InsertSorted(x, sorted, sortConfig, conversionCurrency, exchangeRates) ==
  IF sorted = <<>> THEN <<x>>
  ELSE IF Compare(x, Head(sorted), sortConfig, conversionCurrency, exchangeRates) < 0
       THEN <<x>> \o sorted
       ELSE <<Head(sorted)>>
              \o InsertSorted(x, Tail(sorted), sortConfig, conversionCurrency, exchangeRates)

RECURSIVE StableSort(_, _, _, _, _)
StableSort(items, sorted, sortConfig, conversionCurrency, exchangeRates) ==
  IF items = <<>> THEN sorted
  ELSE StableSort(Tail(items),
                  InsertSorted(Head(items), sorted, sortConfig, conversionCurrency, exchangeRates),
                  sortConfig, conversionCurrency, exchangeRates)

\* A slip of the copy: dataToSort = data, the argument itself is sorted.
DataToSortIsArgument == FALSE

\* const dataToSort = [...data]: the array that is sorted is a copy of the argument.
DataToSortIsCopy == TRUE

\* The call's effect: the argument array and the rate table after the call, and
\* the array returned.
sortGroupedProducts(data, sortConfig, conversionCurrency, exchangeRates) ==
  LET dataToSort == StableSort(data, <<>>, sortConfig, conversionCurrency, exchangeRates)
  IN [data |-> IF DataToSortIsCopy THEN data ELSE dataToSort,
      exchangeRates |-> exchangeRates,
      returned |-> dataToSort]

\* ------------------------------------------------------------------ scraper.ts

\* PROXY_URLS lists six proxy addresses.
NumProxies == 6

\* The products getProducts reads off a response: nothing without the 'In-App
\* Purchases' section, otherwise the list items that have both a title and a price.
ParsedProducts(html) ==
  IF html.section
  THEN SelectSeq(html.items, LAMBDA item : item.product # <<>> /\ item.cost # <<>>)
  ELSE <<>>

\* A call of getProducts at its first await: the request through the first proxy
\* is in flight. proxy is the position of the loop, warned the number of
\* warnings logged; firstOk and firstProducts remember the first proxy whose
\* request succeeded (0 for none) and the products parsed from its response.
NewCall ==
  [proxy |-> 1, warned |-> 0, firstOk |-> 0, firstProducts |-> <<>>,
   status |-> "requesting", result |-> <<>>, allFailedLogged |-> FALSE]

\* The request through the current proxy succeeded: the products are parsed into
\* a list that nothing reads (the return at line 107 leaves the forEach callback
\* only), and the loop goes on to the next proxy.
AfterResponse(call, html) ==
  [call EXCEPT !.proxy = @ + 1,
               !.firstOk = IF @ = 0 THEN call.proxy ELSE @,
               !.firstProducts = IF call.firstOk = 0 THEN ParsedProducts(html) ELSE @]

\* The request through the current proxy failed: a warning, then the next proxy.
AfterFailure(call) == [call EXCEPT !.proxy = @ + 1, !.warned = @ + 1]

\* The loop is over: the error is logged and the empty list returned.
AfterLoop(call) ==
  [call EXCEPT !.status = "returned", !.result = <<>>, !.allFailedLogged = TRUE]

\* ------------------------------------------------------------------ state

VARIABLES
  pc,                 \* "ready" before the call of the specification, "returned" after
  price,              \* normalizePrice: the argument
  normalized,         \* normalizePrice: the number returned
  which,              \* which definition of groupProducts utils.ts binds: "first" | "second"
  allProducts,        \* groupProducts, filterHighestPriceProducts: the argument
  groupedData,        \* groupProducts: the mapping returned
  highest,            \* filterHighestPriceProducts: the list returned
  data,               \* sortGroupedProducts: the argument array
  sortConfig,         \* sortGroupedProducts: the sort configuration
  conversionCurrency, \* sortGroupedProducts: the target currency, Undefined for null
  exchangeRates,      \* sortGroupedProducts: the rate table
  sortedData,         \* sortGroupedProducts: the array returned
  calls,              \* getProducts: the calls in progress, by country code
  searchAppId,        \* handleSearch: the App ID of the form, trimmed
  loading,            \* the page: the loading flag
  progress,           \* the page: the number of countries done
  error               \* the page: the error shown, Undefined for null

vars == <<pc, price, normalized, which, allProducts, groupedData, highest,
          data, sortConfig, conversionCurrency, exchangeRates, sortedData,
          calls, searchAppId, loading, progress, error>>

priceVars == <<price, normalized>>
groupVars == <<which, allProducts, groupedData, highest>>
sortVars == <<data, sortConfig, conversionCurrency, exchangeRates, sortedData>>
searchVars == <<searchAppId, loading, progress, error>>

\* Every sequence over S of length at most n.
SeqUpTo(S, n) == UNION {[1..k -> S] : k \in 0..n}

\* ------------------------------------------------------------------ inputs

PriceAlphabet == {"0", "1", "5", ".", ",", "R"}

\* Price texts of the comments of util.ts (lines 23, 28, 63) and one with 'juta'.
DocumentedPrices ==
  { <<"R", "5", ",", "3", "9", "9", ".", "9", "9">>,
    <<"€", "5", ".", "3", "9", "9", ",", "9", "9">>,
    <<"R", "p", " ", "7", "5", "r", "i", "b", "u">>,
    <<"R", "p", " ", "2", ",", "5", "J", "u", "t", "a">>,
    <<"4", "9", ".", "0", "0", "0">>,
    <<"5", "3", "9", ",", "9", "9">>,
    <<"1", ".", "0", "0", "0", ".", "0", "0", "0">> }

\* Price texts with a 'juta' or 'ribu' token: a prefix of digits and separators,
\* the token in either case, and a suffix that may hold a digit or a second token.
TokenPrefixAlphabet == {"0", "1", ",", "."}
TokenSpellings == {Juta, Ribu, <<"J", "u", "t", "a">>}
TokenSuffixes == {<<>>, <<"5">>, <<"5">> \o Ribu, Juta}
TokenPrices ==
  {p \o t \o x : p \in SeqUpTo(TokenPrefixAlphabet, MaxLen - 2),
                  t \in TokenSpellings, x \in TokenSuffixes}

PriceTexts == SeqUpTo(PriceAlphabet, MaxLen) \cup DocumentedPrices \cup TokenPrices

Pro == <<"P", "r", "o">>
ProUSD == <<"P", "r", "o", "-", "U", "S", "D">>

\* countryData (constants.ts, not among the sources): country code to country name.
countryData(countryCode) ==
  CASE countryCode = <<"u", "s">> -> "United States"
    [] countryCode = <<"c", "a">> -> "Canada"

\* The cost texts of the scraped records with the override that comes with each:
\* an unambiguous symbol, a bare '$' with and without an override, no symbol at
\* all, and a text without a number.
ScrapedCosts ==
  { [cost |-> <<"U", "S", "$", "1">>, pricingCurrency |-> CAD],
    [cost |-> <<"$", "1">>, pricingCurrency |-> CAD],
    [cost |-> <<"$", "1">>, pricingCurrency |-> Undefined],
    [cost |-> <<"2">>, pricingCurrency |-> CAD],
    [cost |-> <<"f", "r", "e", "e">>, pricingCurrency |-> Undefined] }

\* A record as handleSearch builds it (part_001:114-119), with the optional override.
ScrapedProduct(product, c, countryCode) ==
  [product |-> product, cost |-> c.cost, countryCode |-> countryCode,
   countryName |-> countryData(countryCode), currency |-> apple_store_currency_map(countryCode),
   pricingCurrency |-> c.pricingCurrency]

\* The records the lists are made of: one product listed in two storefronts with
\* every cost text, and a second product, whose name holds a '-', listed in one
\* storefront at two prices.
ScrapedProducts ==
  {ScrapedProduct(Pro, c, cc) : c \in ScrapedCosts, cc \in {<<"u", "s">>, <<"c", "a">>}}
    \cup {ScrapedProduct(ProUSD, c, <<"u", "s">>) :
            c \in {x \in ScrapedCosts : x.pricingCurrency = Undefined \/ x.cost = <<"2">>}}

\* A storefront that prices in the currency.
StorefrontOf(currency) ==
  CASE currency = USD -> "United States" [] currency = EUR -> "Germany" [] currency = JPY -> "Japan"

\* An entry of the bucket of one product.
GroupedProduct(currency, cost) ==
  [product |-> Pro, currency |-> currency, cost |-> cost,
   countries |-> IF cost = Num(2, 0) THEN {StorefrontOf(currency), "Ecuador"}
                 ELSE {StorefrontOf(currency)}]

\* The entries of one product bucket: distinct (currency, cost) pairs.
GroupedProducts ==
  {GroupedProduct(c, n) : c \in {USD, EUR}, n \in {Num(15, 1), Num(2, 0)}}
    \cup {GroupedProduct(JPY, Num(2, 0))}

DistinctLists(S, n) == {s \in SeqUpTo(S, n) : \A i, j \in 1..Len(s) : i # j => s[i] # s[j]}

SortConfigs == [key : KnownKeys \cup {"name"}, direction : {"ascending", "descending"}]

RateValues == {Num(0, 0), Num(2, 0)}

\* Partial rate tables towards USD: a base currency may be missing, and a base
\* currency that is present may lack the target.
RateTables ==
  UNION {[bases -> UNION {[targets -> RateValues] : targets \in SUBSET {USD}}] :
           bases \in SUBSET {EUR, JPY}}

\* ------------------------------------------------------------------ idle values

PriceIdle == price = <<>> /\ normalized = NaN
GroupIdle == which = "second" /\ allProducts = <<>> /\ groupedData = <<>> /\ highest = <<>>
SortIdle ==
  /\ data = <<>>
  /\ sortConfig = [key |-> "convertedCost", direction |-> "ascending"]
  /\ conversionCurrency = Undefined
  /\ exchangeRates = <<>>
  /\ sortedData = <<>>

ScrapeIdle == calls = <<>>
SearchIdle == searchAppId = <<>> /\ loading = FALSE /\ progress = 0 /\ error = Undefined

\* ------------------------------------------------------------------ normalizePrice

InitPrice ==
  /\ pc = "ready"
  /\ price \in PriceTexts
  /\ normalized = NaN
  /\ GroupIdle /\ SortIdle /\ ScrapeIdle /\ SearchIdle

NormalizePrice ==
  /\ pc = "ready"
  /\ normalized' = normalizePrice(price)
  /\ pc' = "returned"
  /\ UNCHANGED <<price, groupVars, sortVars, calls, searchVars>>

SpecPrice == InitPrice /\ [][NormalizePrice]_vars

\* ------------------------------------------------------------------ groupProducts

InitGroup ==
  /\ pc = "ready"
  /\ which \in {"first", "second"}
  /\ allProducts \in SeqUpTo(ScrapedProducts, MaxRecords)
  /\ groupedData = <<>>
  /\ highest = <<>>
  /\ PriceIdle /\ SortIdle /\ ScrapeIdle /\ SearchIdle

GroupProducts ==
  /\ pc = "ready"
  /\ groupedData' = groupProductsAs(which, allProducts)
  /\ pc' = "returned"
  /\ UNCHANGED <<which, allProducts, highest, priceVars, sortVars, calls, searchVars>>

SpecGroup == InitGroup /\ [][GroupProducts]_vars

\* ------------------------------------------------------------------ filterHighestPriceProducts

InitFilter ==
  /\ pc = "ready"
  /\ which = "second"
  /\ allProducts \in SeqUpTo(ScrapedProducts, MaxRecords)
  /\ groupedData = <<>>
  /\ highest = <<>>
  /\ PriceIdle /\ SortIdle /\ ScrapeIdle /\ SearchIdle

FilterHighestPriceProducts ==
  /\ pc = "ready"
  /\ highest' = filterHighestPriceProducts(allProducts)
  /\ pc' = "returned"
  /\ UNCHANGED <<which, allProducts, groupedData, priceVars, sortVars, calls, searchVars>>

SpecFilter == InitFilter /\ [][FilterHighestPriceProducts]_vars

\* ------------------------------------------------------------------ sortGroupedProducts

InitSort ==
  /\ pc = "ready"
  /\ data \in DistinctLists(GroupedProducts, MaxEntries)
  /\ sortConfig \in SortConfigs
  /\ conversionCurrency \in {Undefined, USD}
  /\ exchangeRates \in RateTables
  /\ sortedData = <<>>
  /\ PriceIdle /\ GroupIdle /\ ScrapeIdle /\ SearchIdle

SortGroupedProducts ==
  /\ pc = "ready"
  /\ LET call == sortGroupedProducts(data, sortConfig, conversionCurrency, exchangeRates)
     IN /\ data' = call.data
        /\ exchangeRates' = call.exchangeRates
        /\ sortedData' = call.returned
  /\ pc' = "returned"
  /\ UNCHANGED <<sortConfig, conversionCurrency, priceVars, groupVars, calls, searchVars>>

SpecSort == InitSort /\ [][SortGroupedProducts]_vars

\* The four calls side by side.
\* ------------------------------------------------------------------ getProducts

\* The list items of a store page: a title and a price, either of which may be empty.
PageItems ==
  << [product |-> Pro, cost |-> <<"$", "1">>],
     [product |-> ProUSD, cost |-> <<"2">>],
     [product |-> Pro, cost |-> <<>>] >>

\* The responses a proxy gives: a page without the section, and pages with the
\* section that list nothing, one or two purchases, or an item without a price.
Pages ==
  { [section |-> FALSE, items |-> <<PageItems[1]>>],
    [section |-> TRUE, items |-> <<>>],
    [section |-> TRUE, items |-> <<PageItems[1]>>],
    [section |-> TRUE, items |-> <<PageItems[1], PageItems[2]>>],
    [section |-> TRUE, items |-> <<PageItems[3], PageItems[2]>>] }

\* getProducts('us', appId) has been called and awaits the first proxy.
InitScrape ==
  /\ pc = "scraping"
  /\ calls = [countryCode \in {<<"u", "s">>} |-> NewCall]
  /\ PriceIdle /\ GroupIdle /\ SortIdle /\ SearchIdle

\* axios.get through the current proxy resolves with a page.
ProxyResponds ==
  /\ pc \in {"scraping", "searching"}
  /\ \E countryCode \in DOMAIN calls, html \in Pages :
       /\ calls[countryCode].status = "requesting"
       /\ calls[countryCode].proxy <= NumProxies
       /\ calls' = [calls EXCEPT ![countryCode] = AfterResponse(@, html)]
  /\ UNCHANGED <<pc, priceVars, groupVars, sortVars, searchVars>>

\* axios.get through the current proxy rejects (network error, status, timeout).
ProxyFails ==
  /\ pc \in {"scraping", "searching"}
  /\ \E countryCode \in DOMAIN calls :
       /\ calls[countryCode].status = "requesting"
       /\ calls[countryCode].proxy <= NumProxies
       /\ calls' = [calls EXCEPT ![countryCode] = AfterFailure(@)]
  /\ UNCHANGED <<pc, priceVars, groupVars, sortVars, searchVars>>

\* The loop has gone through every proxy: getProducts returns.
GetProductsReturns ==
  /\ pc \in {"scraping", "searching"}
  /\ \E countryCode \in DOMAIN calls :
       /\ calls[countryCode].status = "requesting"
       /\ calls[countryCode].proxy > NumProxies
       /\ calls' = [calls EXCEPT ![countryCode] = AfterLoop(@)]
  /\ UNCHANGED <<pc, priceVars, groupVars, sortVars, searchVars>>

ScrapeNext == ProxyResponds \/ ProxyFails \/ GetProductsReturns

SpecScrape == InitScrape /\ [][ScrapeNext]_vars

\* ------------------------------------------------------------------ handleSearch

\* Object.entries(countryData): the country codes searched.
CountryCodes == {<<"u", "s">>, <<"c", "a">>}

\* The App IDs the form is submitted with, trimmed: none, or one.
AppIds == {<<>>, <<"i", "d", "1">>}

\* 'Please enter an App ID.'
EnterAppId ==
  <<"P", "l", "e", "a", "s", "e", " ", "e", "n", "t", "e", "r", " ",
    "a", "n", " ", "A", "p", "p", " ", "I", "D", ".">>

\* The records handleSearch pushes for the products of one country.
SearchRecords(products, countryCode) ==
  [i \in 1..Len(products) |->
     ScrapedProduct(products[i].product,
                    [cost |-> products[i].cost, pricingCurrency |-> Undefined],
                    countryCode)]

\* The page before the form is submitted.
InitSearch ==
  /\ pc = "form"
  /\ searchAppId \in AppIds
  /\ loading = FALSE /\ progress = 0 /\ error = Undefined
  /\ PriceIdle /\ GroupIdle /\ SortIdle /\ ScrapeIdle

\* handleSearch with an empty App ID: the error is set and nothing else happens.
SubmitEmpty ==
  /\ pc = "form"
  /\ searchAppId = <<>>
  /\ error' = EnterAppId
  /\ pc' = "rejected"
  /\ UNCHANGED <<searchAppId, loading, progress, priceVars, groupVars, sortVars, calls>>

\* handleSearch with an App ID, run to its end: the state is reset, one call of
\* getProducts per country is started and left at its first await, and, without
\* awaiting any of them, the list collected so far is grouped and loading is
\* set to false.
StartSearch ==
  /\ pc = "form"
  /\ searchAppId # <<>>
  /\ error' = Undefined
  /\ progress' = 0
  /\ sortConfig' = [key |-> "convertedCost", direction |-> "ascending"]
  /\ exchangeRates' = <<>>
  /\ allProducts' = <<>>
  /\ calls' = [countryCode \in CountryCodes |-> NewCall]
  /\ groupedData' = groupProductsAs(which, <<>>)
  /\ loading' = FALSE
  /\ pc' = "searching"
  /\ UNCHANGED <<searchAppId, which, highest, priceVars, data, conversionCurrency, sortedData>>

\* The call of one country has returned: its products are pushed onto the list
\* and the progress is advanced.
CollectProducts ==
  /\ pc = "searching"
  /\ \E countryCode \in DOMAIN calls :
       /\ calls[countryCode].status = "returned"
       /\ allProducts' = allProducts \o SearchRecords(calls[countryCode].result, countryCode)
       /\ calls' = [calls EXCEPT ![countryCode].status = "collected"]
  /\ progress' = progress + 1
  /\ UNCHANGED <<pc, searchAppId, loading, error, which, groupedData, highest, priceVars, sortVars>>

SearchNext ==
  \/ SubmitEmpty \/ StartSearch \/ CollectProducts
  \/ ProxyResponds \/ ProxyFails \/ GetProductsReturns

SpecSearch == InitSearch /\ [][SearchNext]_vars

Init == InitPrice \/ InitGroup \/ InitFilter \/ InitSort \/ InitScrape \/ InitSearch

Next ==
  \/ NormalizePrice \/ GroupProducts \/ FilterHighestPriceProducts \/ SortGroupedProducts
  \/ ProxyResponds \/ ProxyFails \/ GetProductsReturns
  \/ SubmitEmpty \/ StartSearch \/ CollectProducts

Spec == Init /\ [][Next]_vars

\* ------------------------------------------------------------------ groupProducts: properties

\* The records of the argument whose cost normalizes.
Normalizable(record) == ~isNaN(normalizePrice(record.cost))

KeptRecords == {r \in {allProducts[i] : i \in 1..Len(allProducts)} : Normalizable(r)}

\* The place of every entry returned: its bucket and its index in the bucket.
EntryPlaces ==
  UNION {{[bucket |-> p, at |-> i] : i \in 1..Len(groupedData[p])} : p \in DOMAIN groupedData}

EntryAt(place) == groupedData[place.bucket][place.at]

\* The three-tier priority as the documentation states it.
ThreeTierCurrency(record) ==
  IF Truthy(getCurrencyFromSymbol(record.cost)) THEN getCurrencyFromSymbol(record.cost)
  ELSE IF Includes(record.cost, <<"$">>) /\ Truthy(record.pricingCurrency) THEN record.pricingCurrency
  ELSE record.currency

\* The entry a kept record went into: same product, same cost, its country in the set.
EntriesOf(record) ==
  {place \in EntryPlaces :
     /\ EntryAt(place).product = record.product
     /\ EntryAt(place).cost = normalizePrice(record.cost)
     /\ record.countryName \in EntryAt(place).countries}

\* C1: every kept record lies in an entry whose currency is the one the three-tier
\* priority gives: the symbol's currency, else the override when the text has a
\* bare '$' and an override is there, else the country default.
C1_ThreeTierCurrency ==
  pc = "returned" =>
    \A r \in KeptRecords : \E place \in EntriesOf(r) : EntryAt(place).currency = ThreeTierCurrency(r)

\* The triple a record maps to under the definition in force.
TripleOf(record) ==
  <<record.product, EffectiveCurrency(which, record), normalizePrice(record.cost)>>

TripleOfEntry(entry) == <<entry.product, entry.currency, entry.cost>>

\* C2: the entries returned are, one to one, the distinct triples (product, resolved
\* currency, normalized cost) of the records whose cost normalizes; each entry lies
\* in the bucket of its product and its countries are exactly the country names of
\* the records of its triple.
C2_OneEntryPerTriple ==
  pc = "returned" =>
    /\ \A r \in KeptRecords :
         Cardinality({place \in EntryPlaces : TripleOfEntry(EntryAt(place)) = TripleOf(r)}) = 1
    /\ \A place \in EntryPlaces :
         /\ EntryAt(place).product = place.bucket
         /\ \E r \in KeptRecords : TripleOf(r) = TripleOfEntry(EntryAt(place))
         /\ EntryAt(place).countries =
              {r.countryName : r \in {x \in KeptRecords : TripleOf(x) = TripleOfEntry(EntryAt(place))}}

\* C2 witness: two records of two countries share one entry while another triple
\* has an entry of its own.
C2_Witness ==
  /\ pc = "returned"
  /\ Cardinality(EntryPlaces) >= 2
  /\ \E place \in EntryPlaces : Cardinality(EntryAt(place).countries) = 2

\* C3: a record whose cost is not a number leaves no trace: no entry has such a
\* cost, every country of an entry comes from a record of that product whose cost
\* normalizes, and the result is the result for the list without those records.
C3_UnparseableExcluded ==
  pc = "returned" =>
    /\ \A place \in EntryPlaces :
         /\ ~isNaN(EntryAt(place).cost)
         /\ \A c \in EntryAt(place).countries :
              \E r \in KeptRecords : r.countryName = c /\ r.product = EntryAt(place).product
                                     /\ normalizePrice(r.cost) = EntryAt(place).cost
    /\ groupedData = groupProductsAs(which, SelectSeq(allProducts, Normalizable))

\* C3 witness: a list that holds a record without a number between two records
\* that are grouped.
C3_Witness ==
  /\ pc = "returned"
  /\ Len(allProducts) = 3
  /\ ~Normalizable(allProducts[2])
  /\ Normalizable(allProducts[1]) /\ Normalizable(allProducts[3])
  /\ allProducts[2].countryName # allProducts[1].countryName
  /\ allProducts[1].countryName = allProducts[3].countryName
  /\ EntryPlaces # {}

\* ------------------------------------------------------------------ filterHighestPriceProducts: properties

PairOf(record) == <<record.countryCode, record.product>>

InputRecords == {allProducts[i] : i \in 1..Len(allProducts)}

InputPairs == {PairOf(r) : r \in InputRecords}

RecordsOfPair(pair) == {r \in InputRecords : PairOf(r) = pair}

KeptOfPair(pair) == {i \in 1..Len(highest) : PairOf(highest[i]) = pair}

\* C4: the list returned holds at most one record per (countryCode, product), and
\* for a pair with a record whose cost normalizes it holds a record of the argument
\* of that pair whose normalized cost no record of the pair exceeds.
C4_HighestPerPair ==
  pc = "returned" =>
    /\ \A i, j \in 1..Len(highest) : PairOf(highest[i]) = PairOf(highest[j]) => i = j
    /\ \A pair \in InputPairs :
         (\E r \in RecordsOfPair(pair) : Normalizable(r)) =>
           \E i \in KeptOfPair(pair) :
             /\ highest[i] \in RecordsOfPair(pair)
             /\ Normalizable(highest[i])
             /\ \A r \in RecordsOfPair(pair) :
                  ~NumLess(normalizePrice(highest[i].cost), normalizePrice(r.cost))

\* C4 witness: a later record of a pair costs more than an earlier one and is the
\* one returned for the pair.
C4_Witness ==
  /\ pc = "returned"
  /\ \E i, j \in 1..Len(allProducts) :
       /\ i < j
       /\ PairOf(allProducts[i]) = PairOf(allProducts[j])
       /\ NumLess(normalizePrice(allProducts[i].cost), normalizePrice(allProducts[j].cost))
       /\ \E k \in 1..Len(highest) : highest[k] = allProducts[j]

\* C5 as stated: a record whose cost fails to normalize is absent whenever a record
\* of its pair normalizes, and a pair without any record that normalizes still
\* keeps one of its records.
C5_KeptWhenNoComparison ==
  pc = "returned" =>
    \A pair \in InputPairs :
      IF \E r \in RecordsOfPair(pair) : Normalizable(r)
      THEN \A i \in KeptOfPair(pair) : Normalizable(highest[i])
      ELSE KeptOfPair(pair) # {}

\* C5, amended: a record whose cost fails to normalize is never in the list
\* returned; a pair without any record that normalizes has no record in it.
C5_UnparseableNeverKept ==
  pc = "returned" =>
    /\ \A i \in 1..Len(highest) : Normalizable(highest[i])
    /\ \A pair \in InputPairs :
         (\A r \in RecordsOfPair(pair) : ~Normalizable(r)) => KeptOfPair(pair) = {}

\* C5 witness: one pair has only records without a number, another pair has a
\* record without a number before one with a number.
C5_Witness ==
  /\ pc = "returned"
  /\ \E pair \in InputPairs : \A r \in RecordsOfPair(pair) : ~Normalizable(r)
  /\ \E i, j \in 1..Len(allProducts) :
       /\ i < j
       /\ PairOf(allProducts[i]) = PairOf(allProducts[j])
       /\ ~Normalizable(allProducts[i])
       /\ Normalizable(allProducts[j])
  /\ Len(highest) = 1

\* ------------------------------------------------------------------ sortGroupedProducts: properties

\* The place of an entry in a list without repeated entries.
PlaceIn(list, entry) == CHOOSE i \in 1..Len(list) : list[i] = entry

\* Unrankable as the documentation defines it: no target currency, or another
\* currency than the target with no rate in the table.
Unrankable(entry) ==
  \/ ~Truthy(conversionCurrency)
  \/ /\ entry.currency # conversionCurrency
     /\ RateOf(exchangeRates, entry.currency, conversionCurrency) = NoRate

\* C6: sorted by convertedCost, under either direction every unrankable entry comes
\* after every rankable one, and the unrankable entries keep their input order.
C6_UnrankableLast ==
  (pc = "returned" /\ sortConfig.key = "convertedCost") =>
    /\ \A i, j \in 1..Len(sortedData) :
         (Unrankable(sortedData[i]) /\ ~Unrankable(sortedData[j])) => j < i
    /\ \A i, j \in 1..Len(data) :
         (i < j /\ Unrankable(data[i]) /\ Unrankable(data[j])) =>
           PlaceIn(sortedData, data[i]) < PlaceIn(sortedData, data[j])

\* The value the documentation ranks an entry by: the raw cost in the target
\* currency, cost x rate for every rate the table holds, the end-of-list value
\* only without a rate.
DocumentedValue(entry) ==
  IF entry.currency = conversionCurrency THEN entry.cost
  ELSE IF RateOf(exchangeRates, entry.currency, conversionCurrency) # NoRate
       THEN NumTimes(entry.cost, RateOf(exchangeRates, entry.currency, conversionCurrency))
       ELSE EndOfList(sortConfig)

\* C7: sorted by convertedCost with a target currency, the list returned is in the
\* order of the documented values: non-decreasing when ascending, non-increasing
\* when descending.
C7_RankedByDocumentedValue ==
  (pc = "returned" /\ sortConfig.key = "convertedCost" /\ Truthy(conversionCurrency)) =>
    \A i, j \in 1..Len(sortedData) :
      i < j =>
        IF sortConfig.direction = "ascending"
        THEN ~NumLess(DocumentedValue(sortedData[j]), DocumentedValue(sortedData[i]))
        ELSE ~NumLess(DocumentedValue(sortedData[i]), DocumentedValue(sortedData[j]))

\* How often x occurs in the list.
Occurrences(list, x) == Cardinality({i \in 1..Len(list) : list[i] = x})

IsPermutation(a, b) ==
  /\ Len(a) = Len(b)
  /\ \A i \in 1..Len(a) : Occurrences(a, a[i]) = Occurrences(b, a[i])

\* C8: the call leaves the argument list and the rate table as they were, and the
\* list it returns is a permutation of the argument.
C8_NonMutating ==
  [][(pc = "ready" /\ pc' = "returned") =>
       /\ data' = data
       /\ exchangeRates' = exchangeRates
       /\ IsPermutation(sortedData', data)]_vars

\* C8 witness: a call that returned the entries in another order than it got them.
C8_Witness ==
  /\ pc = "returned"
  /\ Len(data) >= 2
  /\ sortedData # data
  /\ exchangeRates # <<>>

\* C9: for a key that is none of the five, the list returned is the argument in
\* its input order, under either direction.
C9_UnknownKeyKeepsOrder ==
  (pc = "returned" /\ sortConfig.key \notin KnownKeys) => sortedData = data

\* C9 witness: a descending sort of several entries by an unknown key.
C9_Witness ==
  /\ pc = "returned"
  /\ sortConfig.key \notin KnownKeys
  /\ sortConfig.direction = "descending"
  /\ Len(data) >= 2
  /\ sortedData = data

\* ------------------------------------------------------------------ normalizePrice: properties

HasToken(text) == Includes(toLowerCase(text), Juta) \/ Includes(toLowerCase(text), Ribu)

DigitsOf(s) == SelectSeq(s, LAMBDA c : c \in Digits)

\* The cleaned text holds both separator types.
HasBothSeparators(clean) == Includes(clean, <<".">>) /\ Includes(clean, <<",">>)

\* The separator type that occurs last in the cleaned text.
LastSeparator(clean) == IF LastIndexOf(clean, ".") > LastIndexOf(clean, ",") THEN "." ELSE ","

\* The number read with d as the decimal separator and the other type dropped:
\* the digits up to the second d (or the end), of which those after the first d
\* are the fraction; not a number when there is no digit to read.
ReadWithDecimal(clean, d) ==
  LET first == IndexOf(clean, <<d>>) + 1
      after == SubSeq(clean, first + 1, Len(clean))
      stop == IF Includes(after, <<d>>) THEN first + IndexOf(after, <<d>>) + 1 ELSE Len(clean) + 1
      whole == DigitsOf(SubSeq(clean, 1, stop - 1))
      fraction == DigitsOf(SubSeq(clean, first + 1, stop - 1))
  IN IF whole = <<>> THEN NaN ELSE Num(DigitsValue(whole), Len(fraction))

\* C10: for a price without juta/ribu whose cleaned text holds both '.' and ',',
\* the type that occurs last is the decimal separator and the other type is
\* dropped everywhere.
C10_LastSeparatorIsDecimal ==
  (pc = "returned" /\ ~HasToken(price) /\ HasBothSeparators(CleanString(price))) =>
    normalized = ReadWithDecimal(CleanString(price), LastSeparator(CleanString(price)))

\* C10 witness: the documented price with a decimal comma gives 5399.99.
C10_Witness ==
  /\ pc = "returned"
  /\ price = <<"€", "5", ".", "3", "9", "9", ",", "9", "9">>
  /\ normalized = Num(539999, 2)

\* How often the character occurs in the text.
CountOf(s, c) == Len(SelectSeq(s, LAMBDA x : x = c))

\* The cleaned text holds exactly one separator character.
HasOneSeparator(clean) == CountOf(clean, ".") + CountOf(clean, ",") = 1

\* The fragments before and after the only separator of the cleaned text.
BeforeSeparator(clean) == DigitPrefix(clean)
AfterSeparator(clean) == SubSeq(clean, Len(DigitPrefix(clean)) + 2, Len(clean))

\* C11: for a price without juta/ribu whose cleaned text holds one separator
\* character, the separator groups thousands (the digits on both sides joined, no
\* fraction) exactly when three digits follow it and a digit precedes it; in
\* every other case it is the decimal separator (not a number without any digit).
C11_SingleSeparator ==
  (pc = "returned" /\ ~HasToken(price) /\ HasOneSeparator(CleanString(price))) =>
    LET before == BeforeSeparator(CleanString(price))
        after == AfterSeparator(CleanString(price))
    IN IF Len(after) = 3 /\ Len(before) > 0
       THEN normalized = Num(DigitsValue(before \o after), 0)
       ELSE IF before = <<>> /\ after = <<>> THEN normalized = NaN
       ELSE normalized = Num(DigitsValue(before \o after), Len(after))

\* C11 witness: '0,001' goes by the same rule and gives 1.
C11_Witness ==
  /\ pc = "returned"
  /\ price = <<"0", ",", "0", "0", "1">>
  /\ normalized = Num(1, 0)

\* The cleaned text holds one separator type, two or more times.
HasRepeatedSeparator(clean) ==
  \/ CountOf(clean, ".") >= 2 /\ CountOf(clean, ",") = 0
  \/ CountOf(clean, ",") >= 2 /\ CountOf(clean, ".") = 0

\* C15: for a price without juta/ribu whose cleaned text holds one separator type
\* two or more times, the result is the integer its digits spell with every
\* separator removed (not a number when there is no digit).
C15_RepeatedSeparatorIsThousands ==
  (pc = "returned" /\ ~HasToken(price) /\ HasRepeatedSeparator(CleanString(price))) =>
    IF DigitsOf(CleanString(price)) = <<>> THEN normalized = NaN
    ELSE normalized = Num(DigitsValue(DigitsOf(CleanString(price))), 0)

\* C15 witness: '1.000.000' gives 1000000.
C15_Witness ==
  /\ pc = "returned"
  /\ price = <<"1", ".", "0", "0", "0", ".", "0", "0", "0">>
  /\ normalized = Num(1000000, 0)

\* The number the text before the first occurrence of the token spells: dots
\* ignored, the digits after the first comma are the fraction, every other
\* character ignored; not a number when there is no digit.
TokenBase(text, token) ==
  LET before == SplitFirst(toLowerCase(text), token)
      comma == IndexOf(before, <<",">>)
      whole == DigitsOf(IF comma = -1 THEN before ELSE SubSeq(before, 1, comma))
      fraction == DigitsOf(IF comma = -1 THEN <<>> ELSE SubSeq(before, comma + 2, Len(before)))
  IN IF whole \o fraction = <<>> THEN NaN
     ELSE Num(DigitsValue(whole \o fraction), Len(fraction))

\* The base number times 1,000,000 for 'juta' and 1,000 for 'ribu'.
TokenScaled(base, token) ==
  IF isNaN(base) THEN NaN
  ELSE Num(base.m * (IF token = Juta THEN 1000000 ELSE 1000), base.e)

\* The token the text is read by: 'juta' when it occurs with a number before it,
\* otherwise 'ribu' when it occurs with a number before it, otherwise none.
TokenUsed(text) ==
  IF Includes(toLowerCase(text), Juta) /\ ~isNaN(TokenBase(text, Juta)) THEN Juta
  ELSE IF Includes(toLowerCase(text), Ribu) /\ ~isNaN(TokenBase(text, Ribu)) THEN Ribu
  ELSE <<>>

\* C12 as stated: whenever the lower-cased price holds 'juta' or 'ribu', the
\* result is the number before the token ('juta' first) times its multiplier, and
\* the generic parser is not used.
C12_TokenAlwaysDecides ==
  (pc = "returned" /\ HasToken(price)) =>
    LET token == IF Includes(toLowerCase(price), Juta) THEN Juta ELSE Ribu
    IN normalized = TokenScaled(TokenBase(price, token), token)

\* C12: when the lower-cased price holds 'juta' or 'ribu', the result is the
\* number before the token times 1,000,000 ('juta', tried first) or 1,000
\* ('ribu'), provided the text before that token holds a number; a token with no
\* number before it is passed over, and with no token left the price goes to the
\* generic parser.
C12_TokenDecidesWhenNumberPrecedes ==
  (pc = "returned" /\ HasToken(price)) =>
    IF TokenUsed(price) = <<>> THEN normalized = parseNumberWithSeparators(price)
    ELSE normalized = TokenScaled(TokenBase(price, TokenUsed(price)), TokenUsed(price))

\* C12 witness: 'Rp 2,5Juta' gives 2500000.
C12_Witness ==
  /\ pc = "returned"
  /\ price = <<"R", "p", " ", "2", ",", "5", "J", "u", "t", "a">>
  /\ normalized = Num(2500000, 0)

\* ------------------------------------------------------------------ getProducts: properties

\* C13: a call of getProducts stops at the first proxy whose request succeeds and
\* returns the products parsed from that response, without the error; a call
\* that has returned with no successful request has tried every proxy, logged
\* the error and returned the empty list.
C13_StopsAtFirstSuccess ==
  \A countryCode \in DOMAIN calls :
    LET call == calls[countryCode]
    IN /\ call.firstOk > 0 =>
            /\ call.status = "returned"
            /\ call.proxy = call.firstOk
            /\ call.result = call.firstProducts
            /\ ~call.allFailedLogged
       /\ (call.firstOk = 0 /\ call.status = "returned") =>
            /\ call.warned = NumProxies
            /\ call.result = <<>>
            /\ call.allFailedLogged

\* ------------------------------------------------------------------ handleSearch: properties

\* C14: once a search has grouped its list and set loading to false, the fetch of
\* every country has completed and been collected, and every record with a
\* readable price of a country whose fetch succeeded lies in an entry of the
\* grouped data shown.
C14_GroupedAfterFetches ==
  (pc = "searching" /\ ~loading) =>
    \A countryCode \in DOMAIN calls :
      /\ calls[countryCode].status = "collected"
      /\ calls[countryCode].firstOk > 0 =>
           LET records == SearchRecords(calls[countryCode].firstProducts, countryCode)
           IN \A i \in 1..Len(records) : Normalizable(records[i]) => EntriesOf(records[i]) # {}

====
